---- MODULE Spec2Model ----
(***************************************************************************)
(* Model of core/computed/resource-summary.js (class ResourceSummary).     *)
(*                                                                         *)
(* Strings that the code inspects character by character (hostnames and    *)
(* host patterns) are sequences of tokens; a token plays the role of one   *)
(* character.  A URL string is a record [scheme, host, path]; a string     *)
(* without a scheme is a relative reference, which `new URL(s)` cannot     *)
(* parse and `new URL(s, base)` resolves against base.  The empty string   *)
(* (and `undefined`, which the code treats alike through `!x`) is EmptyUrl.*)
(***************************************************************************)
EXTENDS Integers, Sequences, FiniteSets, TLC

\* ------------------------------------------------------------------ bounds
\* Largest number of network records in one call of summarize.
MaxRecords == 2

\* ------------------------------------------------------- JavaScript values
\* `undefined` read from an absent numeric field, and the NaN that
\* `number + undefined` produces.  Both lie outside Nat.
Undefined == 0 - 1
NaN == 0 - 2

\* a += b on JavaScript numbers.
JsAdd(a, b) == IF a = NaN \/ b = NaN \/ b = Undefined \/ a = Undefined
               THEN NaN ELSE a + b

\* ------------------------------------------------------------------- URLs
EmptyUrl == [scheme |-> "", host |-> <<>>, path |-> ""]

Url(scheme, host, path) == [scheme |-> scheme, host |-> host, path |-> path]

\* `new URL(s)` succeeds exactly for absolute URL strings.
IsAbsolute(u) == u.scheme # ""

\* new URL(ref, base).href for an absolute base: an absolute ref is kept,
\* a path-absolute ref ("/x") takes scheme and host from the base.
Resolve(ref, base) ==
  IF IsAbsolute(ref) THEN ref
  ELSE [scheme |-> base.scheme, host |-> base.host, path |-> ref.path]

\* new URL(s).hostname of a parseable URL string.
Hostname(u) == u.host

\* String.prototype.startsWith / endsWith / slice(n) on token strings.
StartsWith(s, p) == Len(p) <= Len(s) /\ SubSeq(s, 1, Len(p)) = p
EndsWith(s, p) == Len(p) <= Len(s) /\ SubSeq(s, Len(s) - Len(p) + 1, Len(s)) = p
Slice(s, n) == SubSeq(s, n + 1, Len(s))

\* The two-character prefix '*.' of a wildcard host pattern.
Wildcard == <<"*", ".">>

\* --------------------------------------------------------- collaborators
\* NetworkRequest.isNonNetworkRequest: the request did not go through the
\* network stack (data:, blob:, about:, filesystem: ...).
NonNetworkSchemes == {"data", "blob", "about", "filesystem"}
isNonNetworkRequest(record) == record.url.scheme \in NonNetworkSchemes

\* Budget.getMatchingBudget: at most one budget applicable to the page; the
\* result is <<>> (no budget) or <<budget>>.  A budget applies when its
\* path is the path of the main document.
RECURSIVE LastMatching(_, _)
LastMatching(bs, path) ==
  IF bs = <<>> THEN <<>>
  ELSE IF bs[Len(bs)].path = path THEN <<bs[Len(bs)]>>
  ELSE LastMatching(SubSeq(bs, 1, Len(bs) - 1), path)

getMatchingBudget(bs, mainDocumentUrl) ==
  IF mainDocumentUrl = EmptyUrl THEN <<>> ELSE LastMatching(bs, mainDocumentUrl.path)

\* Util.getRootDomain: the registrable domain of the URL's host, here its
\* last two labels.
RECURSIVE DotPositions(_, _)
DotPositions(h, i) ==
  IF i > Len(h) THEN <<>>
  ELSE (IF h[i] = "." THEN <<i>> ELSE <<>>) \o DotPositions(h, i + 1)

getRootDomain(u) ==
  LET dots == DotPositions(u.host, 1)
  IN IF Len(dots) < 2 THEN u.host
     ELSE Slice(u.host, dots[Len(dots) - 1])

\* ---------------------------------------------------- ResourceSummary code
ResourceTypes == {"stylesheet", "image", "media", "font", "script",
                  "document", "other", "total", "third-party"}

\* Variant: the table lacks the 'Media' row.
determineResourceTypeNoMedia(record) ==
  IF record.resourceType = "" THEN "other"
  ELSE CASE record.resourceType = "Stylesheet" -> "stylesheet"
         [] record.resourceType = "Image" -> "image"
         [] record.resourceType = "Font" -> "font"
         [] record.resourceType = "Script" -> "script"
         [] record.resourceType = "Document" -> "document"
         [] OTHER -> "other"

\* determineResourceType(record): an absent (or empty) resourceType and any
\* value outside the table give 'other'.
determineResourceType(record) ==
  IF record.resourceType = "" THEN "other"
  ELSE CASE record.resourceType = "Stylesheet" -> "stylesheet"
         [] record.resourceType = "Image" -> "image"
         [] record.resourceType = "Media" -> "media"
         [] record.resourceType = "Font" -> "font"
         [] record.resourceType = "Script" -> "script"
         [] record.resourceType = "Document" -> "document"
         [] OTHER -> "other"

\* e.rel === 'icon' || e.rel === 'shortcut icon'
IsIconLink(e) == e.rel = "icon" \/ e.rel = "shortcut icon"

RECURSIVE ResolvedHrefs(_, _)
ResolvedHrefs(links, mainDocumentUrl) ==
  IF links = <<>> THEN <<>>
  ELSE (IF Head(links).href # EmptyUrl
        THEN <<Resolve(Head(links).href, mainDocumentUrl)>> ELSE <<>>)
       \o ResolvedHrefs(Tail(links), mainDocumentUrl)

\* Variant: /favicon.ico is a candidate also when icon links are declared.
determineFaviconUrlsWithDefault(links, mainDocumentUrl) ==
  IF mainDocumentUrl = EmptyUrl THEN <<>>
  ELSE <<Resolve(Url("", <<>>, "/favicon.ico"), mainDocumentUrl)>>
       \o ResolvedHrefs(SelectSeq(links, IsIconLink), mainDocumentUrl)

determineFaviconUrls(links, mainDocumentUrl) ==
  IF mainDocumentUrl = EmptyUrl THEN <<>>
  ELSE LET iconLinkElements == SelectSeq(links, IsIconLink)
       IN IF Len(iconLinkElements) = 0
          THEN <<Resolve(Url("", <<>>, "/favicon.ico"), mainDocumentUrl)>>
          ELSE ResolvedHrefs(iconLinkElements, mainDocumentUrl)

Includes(seq, x) == \E i \in 1..Len(seq) : seq[i] = x

\* Variant: the initial summary lacks the 'third-party' bucket.
EmptySummaryNoThirdParty ==
  [t \in {"stylesheet", "image", "media", "font", "script", "document", "other", "total"} |->
     [count |-> 0, resourceSize |-> 0, transferSize |-> 0]]

\* The initial value of resourceSummary.
ZeroEntry == [count |-> 0, resourceSize |-> 0, transferSize |-> 0]
EmptySummary == [t \in ResourceTypes |-> ZeroEntry]

\* domain => `*.${domain}`
RECURSIVE MapWildcard(_)
MapWildcard(domains) ==
  IF domains = <<>> THEN <<>>
  ELSE <<Wildcard \o Head(domains)>> \o MapWildcard(Tail(domains))

\* The choice of firstPartyHosts.
FirstPartyHosts(url, bs, entities) ==
  LET budget == getMatchingBudget(bs, url.mainDocumentUrl)
  IN IF budget # <<>> /\ budget[1].options # <<>>
        /\ budget[1].options[1].firstPartyHostnames # <<>>
     THEN budget[1].options[1].firstPartyHostnames[1]
     ELSE IF entities.firstParty # <<>>
          THEN MapWildcard(entities.firstParty[1].domains)
          ELSE <<Wildcard \o getRootDomain(url.finalDisplayedUrl)>>

\* Variant: a favicon candidate is dropped whatever its type.
SurvivesNoTypeTest(record, favicons) ==
  /\ ~Includes(favicons, record.url)
  /\ ~isNonNetworkRequest(record)

\* The filter callback: true when the record is kept.
Survives(record, favicons) ==
  /\ ~(determineResourceType(record) = "other" /\ Includes(favicons, record.url))
  /\ ~isNonNetworkRequest(record)

\* The callback of firstPartyHosts.some for a parseable record url.
HostMatches(hostname, hostExp) ==
  IF StartsWith(hostExp, Wildcard)
  THEN EndsWith(hostname, Slice(hostExp, 2))
  ELSE hostname = hostExp

\* Variant: every pattern has to match (every instead of some).
IsFirstPartyEvery(record, hosts) ==
  \A i \in 1..Len(hosts) : HostMatches(Hostname(record.url), hosts[i])

IsFirstParty(record, hosts) ==
  \E i \in 1..Len(hosts) : HostMatches(Hostname(record.url), hosts[i])

\* `new URL(record.url)` inside the some callback raises a TypeError; the
\* callback runs only when there is at least one host pattern.
Throws(record, hosts) == hosts # <<>> /\ ~IsAbsolute(record.url)

\* Variant: the sizes are assigned instead of added.
AddToAssign(entry, record) ==
  [count |-> entry.count + 1,
   resourceSize |-> record.resourceSize,
   transferSize |-> record.transferSize]

AddTo(entry, record) ==
  [count |-> entry.count + 1,
   resourceSize |-> JsAdd(entry.resourceSize, record.resourceSize),
   transferSize |-> JsAdd(entry.transferSize, record.transferSize)]

\* Variant: total.transferSize grows by the record's resourceSize.
AccumulateTotalSwapped(summary, record, hosts) ==
  LET type == determineResourceType(record)
      s1 == [summary EXCEPT ![type] = AddTo(summary[type], record)]
      s2 == [s1 EXCEPT !["total"] =
               [count |-> s1["total"].count + 1,
                resourceSize |-> JsAdd(s1["total"].resourceSize, record.resourceSize),
                transferSize |-> JsAdd(s1["total"].transferSize, record.resourceSize)]]
  IN IF IsFirstParty(record, hosts) THEN s2
     ELSE [s2 EXCEPT !["third-party"] = AddTo(s2["third-party"], record)]

\* Variant: 'third-party' grows for every record.
AccumulateAlwaysThirdParty(summary, record, hosts) ==
  LET type == determineResourceType(record)
      s1 == [summary EXCEPT ![type] = AddTo(summary[type], record)]
      s2 == [s1 EXCEPT !["total"] = AddTo(s1["total"], record)]
  IN [s2 EXCEPT !["third-party"] = AddTo(s2["third-party"], record)]

\* The forEach callback for a record whose url parses.
Accumulate(summary, record, hosts) ==
  LET type == determineResourceType(record)
      s1 == [summary EXCEPT ![type] = AddTo(summary[type], record)]
      s2 == [s1 EXCEPT !["total"] = AddTo(s1["total"], record)]
  IN IF IsFirstParty(record, hosts) THEN s2
     ELSE [s2 EXCEPT !["third-party"] = AddTo(s2["third-party"], record)]

\* summarize as a function: [threw, summary]; summary is meaningful only
\* when threw is FALSE.
RECURSIVE ForEach(_, _, _)
ForEach(summary, records, hosts) ==
  IF records = <<>> THEN [threw |-> FALSE, summary |-> summary]
  ELSE IF Throws(Head(records), hosts)
       THEN [threw |-> TRUE, summary |-> EmptySummary]
       ELSE ForEach(Accumulate(summary, Head(records), hosts), Tail(records), hosts)

summarize(records, url, bs, links, entities) ==
  LET hosts == FirstPartyHosts(url, bs, entities)
      favicons == determineFaviconUrls(links, url.mainDocumentUrl)
      kept == SelectSeq(records, LAMBDA r : Survives(r, favicons))
  IN ForEach(EmptySummary, kept, hosts)

\* ------------------------------------------------------------------ inputs
\* Hostnames: www.example.com, example.com, notexample.com, other.com.
WwwHost == <<"w", ".", "e", ".", "c">>
RootHost == <<"e", ".", "c">>
LookalikeHost == <<"n", "e", ".", "c">>
OtherHost == <<"o", ".", "c">>

PageUrl == Url("https", WwwHost, "/")
DefaultFavicon == Url("https", WwwHost, "/favicon.ico")
DeclaredIcon == Url("https", WwwHost, "/i.png")
RemoteIcon == Url("https", OtherHost, "/i.png")

Rec(type, url, rs, ts) ==
  [resourceType |-> type, url |-> url, resourceSize |-> rs, transferSize |-> ts]

\* Network records as the declared type LH.Artifacts.NetworkRequest allows
\* them: an absolute url, integer sizes, resourceType possibly absent ("").
RecordPool ==
  { Rec("Script", Url("https", WwwHost, "/a.js"), 2, 1),
    Rec("", DefaultFavicon, 1, 1),
    Rec("Image", DefaultFavicon, 1, 2),
    Rec("XHR", DeclaredIcon, 1, 0),
    Rec("", RemoteIcon, 2, 2),
    Rec("Image", Url("data", <<>>, "image/png;base64"), 3, 0),
    Rec("Font", Url("https", OtherHost, "/f.woff"), 2, 2),
    Rec("Stylesheet", Url("https", LookalikeHost, "/c.css"), 1, 1),
    Rec("Media", Url("https", RootHost, "/m.mp4"), 0, 1),
    Rec("Document", PageUrl, 2, 1) }

\* Records that break the declared type: absent or unparseable url, absent
\* sizes.
MalformedPool ==
  { Rec("Script", EmptyUrl, 1, 1),
    Rec("Image", Url("", <<>>, "not a url"), 1, 1),
    Rec("Script", Url("https", WwwHost, "/a.js"), Undefined, 1),
    Rec("", Url("https", OtherHost, "/b.js"), 1, Undefined),
    Rec("Script", Url("https", WwwHost, "/a.js"), 2, 1),
    Rec("", DefaultFavicon, 1, 1) }

UrlArtifacts ==
  { [mainDocumentUrl |-> PageUrl, finalDisplayedUrl |-> PageUrl],
    [mainDocumentUrl |-> EmptyUrl, finalDisplayedUrl |-> PageUrl] }

Budget(path, options) == [path |-> path, options |-> options]
Hostnames(list) == <<[firstPartyHostnames |-> <<list>>]>>

\* budgets: null or empty (<<>>), or a list of budgets; options and
\* options.firstPartyHostnames are optional (<<>> when absent).
BudgetPool ==
  { <<>>,
    <<Budget("/", <<>>)>>,
    <<Budget("/", Hostnames(<<OtherHost, Wildcard \o WwwHost>>))>>,
    <<Budget("/", Hostnames(<<>>))>> }

Link(rel, href) == [rel |-> rel, href |-> href]

LinkPool ==
  { <<>>,
    <<Link("stylesheet", Url("", <<>>, "/i.png"))>>,
    <<Link("icon", Url("", <<>>, "/i.png")), Link("shortcut icon", RemoteIcon)>>,
    <<Link("icon", EmptyUrl)>> }

\* classifiedEntities.firstParty is optional (<<>> when absent).
EntityPool ==
  { [firstParty |-> <<>>],
    [firstParty |-> <<[domains |-> <<OtherHost>>]>>],
    [firstParty |-> <<[domains |-> <<>>]>>] }

SeqsUpTo(S, n) == UNION {[1..k -> S] : k \in 0..n}

\* ------------------------------------------------------------ state machine
VARIABLES networkRecords, URLArtifact, budgets, LinkElements, classifiedEntities,
          pc, firstPartyHosts, faviconUrls, filtered, idx, resourceSummary

inputs == <<networkRecords, URLArtifact, budgets, LinkElements, classifiedEntities>>
vars == <<networkRecords, URLArtifact, budgets, LinkElements, classifiedEntities,
          pc, firstPartyHosts, faviconUrls, filtered, idx, resourceSummary>>

Entered ==
  /\ URLArtifact \in UrlArtifacts
  /\ budgets \in BudgetPool
  /\ LinkElements \in LinkPool
  /\ classifiedEntities \in EntityPool
  /\ pc = "start"
  /\ firstPartyHosts = <<>>
  /\ faviconUrls = <<>>
  /\ filtered = <<>>
  /\ idx = 1
  /\ resourceSummary = EmptySummary

Init == networkRecords \in SeqsUpTo(RecordPool, MaxRecords) /\ Entered

InitMalformed == networkRecords \in SeqsUpTo(MalformedPool, MaxRecords) /\ Entered

\* lines 83-91
ChooseFirstPartyHosts ==
  /\ pc = "start"
  /\ firstPartyHosts' = FirstPartyHosts(URLArtifact, budgets, classifiedEntities)
  /\ pc' = "favicons"
  /\ UNCHANGED <<inputs, faviconUrls, filtered, idx, resourceSummary>>

\* line 93
DetermineFaviconUrls ==
  /\ pc = "favicons"
  /\ faviconUrls' = determineFaviconUrls(LinkElements, URLArtifact.mainDocumentUrl)
  /\ pc' = "filter"
  /\ UNCHANGED <<inputs, firstPartyHosts, filtered, idx, resourceSummary>>

\* lines 95-111
Filter ==
  /\ pc = "filter"
  /\ filtered' = SelectSeq(networkRecords, LAMBDA r : Survives(r, faviconUrls))
  /\ idx' = 1
  /\ pc' = "forEach"
  /\ UNCHANGED <<inputs, firstPartyHosts, faviconUrls, resourceSummary>>

\* lines 111-134, one record
ForEachRecord ==
  /\ pc = "forEach"
  /\ idx <= Len(filtered)
  /\ IF Throws(filtered[idx], firstPartyHosts)
     THEN /\ pc' = "threw"
          /\ UNCHANGED <<idx, resourceSummary>>
     ELSE /\ resourceSummary' = Accumulate(resourceSummary, filtered[idx], firstPartyHosts)
          /\ idx' = idx + 1
          /\ pc' = pc
  /\ UNCHANGED <<inputs, firstPartyHosts, faviconUrls, filtered>>

\* line 135
Return ==
  /\ pc = "forEach"
  /\ idx > Len(filtered)
  /\ pc' = "done"
  /\ UNCHANGED <<inputs, firstPartyHosts, faviconUrls, filtered, idx, resourceSummary>>

Next ==
  \/ ChooseFirstPartyHosts
  \/ DetermineFaviconUrls
  \/ Filter
  \/ ForEachRecord
  \/ Return

Spec == Init /\ [][Next]_vars

SpecMalformed == InitMalformed /\ [][Next]_vars

TypeOK ==
  /\ pc \in {"start", "favicons", "filter", "forEach", "threw", "done"}
  /\ idx \in 1..(MaxRecords + 1)
  /\ DOMAIN resourceSummary = ResourceTypes

\* ---------------------------------------------------------------- properties
Range(s) == {s[i] : i \in 1..Len(s)}

RECURSIVE SumResourceSize(_)
SumResourceSize(records) ==
  IF records = <<>> THEN 0
  ELSE Head(records).resourceSize + SumResourceSize(Tail(records))

RECURSIVE SumTransferSize(_)
SumTransferSize(records) ==
  IF records = <<>> THEN 0
  ELSE Head(records).transferSize + SumTransferSize(Tail(records))

Totals(records) ==
  [count |-> Len(records),
   resourceSize |-> SumResourceSize(records),
   transferSize |-> SumTransferSize(records)]

\* The bucket a record belongs to, read off the mapping table.
TableType(record) ==
  LET table == [Stylesheet |-> "stylesheet", Image |-> "image", Media |-> "media",
                Font |-> "font", Script |-> "script", Document |-> "document"]
  IN IF record.resourceType \in DOMAIN table THEN table[record.resourceType]
     ELSE "other"

\* The exclusion rule: a favicon candidate of type "other", or a request
\* that did not use the network.
Excluded(record) ==
  \/ TableType(record) = "other" /\ record.url \in Range(faviconUrls)
  \/ record.url.scheme \in NonNetworkSchemes

Survivors == SelectSeq(networkRecords, LAMBDA r : ~Excluded(r))

\* A host pattern matches a hostname: '*.suffix' matches every hostname
\* with that suffix, any other pattern only itself.
PatternMatches(hostname, pattern) ==
  IF Len(pattern) >= 2 /\ pattern[1] = "*" /\ pattern[2] = "."
  THEN \E k \in 0..Len(hostname) :
         SubSeq(hostname, k + 1, Len(hostname)) = SubSeq(pattern, 3, Len(pattern))
  ELSE hostname = pattern

FirstPartyByPatterns(record) ==
  \E p \in Range(firstPartyHosts) : PatternMatches(record.url.host, p)

Returned == pc = "done"
Filtered == pc \in {"forEach", "done"}

\* C1: the returned "total" bucket counts the records that survive the
\* exclusion filter and sums their resourceSize and transferSize.
C1_TotalIsSurvivors ==
  Returned => resourceSummary["total"] = Totals(Survivors)

\* C1 witness: a call returned in which a record was dropped and another
\* one was counted.
C1_Witness ==
  /\ Returned
  /\ Len(Survivors) = 1
  /\ Len(networkRecords) = 2
  /\ resourceSummary["total"].resourceSize > 0

\* C2: a record is dropped exactly when it is a type-"other" favicon
\* candidate or a non-network request; a favicon candidate of another type
\* is counted, and a non-network record reaches no bucket.
C2_DropRule ==
  /\ Filtered => filtered = Survivors
  /\ Returned =>
       /\ \A i \in 1..Len(networkRecords) :
            (/\ networkRecords[i].url \in Range(faviconUrls)
             /\ TableType(networkRecords[i]) # "other"
             /\ networkRecords[i].url.scheme \notin NonNetworkSchemes)
            => resourceSummary[TableType(networkRecords[i])].count >= 1
       /\ (\A i \in 1..Len(networkRecords) :
             networkRecords[i].url.scheme \in NonNetworkSchemes)
          => resourceSummary = EmptySummary

\* C2 witness: an Image request to a favicon candidate was counted while a
\* non-network request was dropped.
C2_Witness ==
  /\ Returned
  /\ \E i, j \in 1..Len(networkRecords) :
       /\ networkRecords[i].url \in Range(faviconUrls)
       /\ networkRecords[i].resourceType = "Image"
       /\ networkRecords[j].url.scheme = "data"
  /\ resourceSummary["total"].count = 1
  /\ resourceSummary["image"].count = 1

IconLinks == {i \in 1..Len(LinkElements) : LinkElements[i].rel \in {"icon", "shortcut icon"}}

\* C3: the favicon candidates are none without a main document URL, the
\* page's /favicon.ico when no icon link is declared, and otherwise exactly
\* the resolved hrefs of the icon links that have one; when every icon link
\* lacks an href a request to /favicon.ico is not excluded.
C3_FaviconUrls ==
  LET main == URLArtifact.mainDocumentUrl
      default == [scheme |-> main.scheme, host |-> main.host, path |-> "/favicon.ico"]
  IN /\ pc \notin {"start", "favicons"} =>
          /\ main = EmptyUrl => faviconUrls = <<>>
          /\ (main # EmptyUrl /\ IconLinks = {}) => faviconUrls = <<default>>
          /\ (main # EmptyUrl /\ IconLinks # {}) =>
               Range(faviconUrls) =
                 {Resolve(LinkElements[i].href, main) :
                    i \in {j \in IconLinks : LinkElements[j].href # EmptyUrl}}
     /\ (/\ Filtered
         /\ main # EmptyUrl
         /\ IconLinks # {}
         /\ \A i \in IconLinks : LinkElements[i].href = EmptyUrl) =>
          \A i \in 1..Len(networkRecords) :
            (networkRecords[i].url = default /\ IsAbsolute(default)) =>
               networkRecords[i] \in Range(filtered)

\* C3 witness: the only icon link has no href and a request of type "other"
\* to /favicon.ico was counted.
C3_Witness ==
  /\ Returned
  /\ URLArtifact.mainDocumentUrl = PageUrl
  /\ IconLinks # {}
  /\ faviconUrls = <<>>
  /\ \E i \in 1..Len(networkRecords) :
       networkRecords[i].url = DefaultFavicon /\ networkRecords[i].resourceType = ""
  /\ resourceSummary["other"].count >= 1

\* The budget that applies to the page, as <<>> or <<budget>>.
MatchingBudget == getMatchingBudget(budgets, URLArtifact.mainDocumentUrl)

HasOverride ==
  /\ MatchingBudget # <<>>
  /\ MatchingBudget[1].options # <<>>
  /\ MatchingBudget[1].options[1].firstPartyHostnames # <<>>

Fallback == <<Wildcard \o getRootDomain(URLArtifact.finalDisplayedUrl)>>

\* C4: the host patterns are the budget's firstPartyHostnames when the
\* matching budget has them; else the first-party entity's domains, each
\* prefixed with "*.", when there is such an entity with known domains; in
\* every other case the single pattern "*." + root domain of the final
\* displayed URL.
C4_HostPriority ==
  pc # "start" =>
    firstPartyHosts =
      IF HasOverride THEN MatchingBudget[1].options[1].firstPartyHostnames[1]
      ELSE IF /\ classifiedEntities.firstParty # <<>>
              /\ classifiedEntities.firstParty[1].domains # <<>>
           THEN [i \in 1..Len(classifiedEntities.firstParty[1].domains) |->
                   Wildcard \o classifiedEntities.firstParty[1].domains[i]]
           ELSE Fallback

NotFirstParty == SelectSeq(filtered, LAMBDA r : ~FirstPartyByPatterns(r))

\* C5: a surviving record is first-party exactly when some pattern matches
\* its hostname ("*." patterns by suffix, others by equality), whatever the
\* order of the patterns; "third-party" accumulates exactly the records no
\* pattern matches.
C5_PartyRule ==
  Returned => resourceSummary["third-party"] = Totals(NotFirstParty)

\* C5 witness: the second of two patterns, a wildcard, makes a request
\* first-party while another request is third-party.
C5_Witness ==
  /\ Returned
  /\ Len(firstPartyHosts) = 2
  /\ ~PatternMatches(WwwHost, firstPartyHosts[1])
  /\ PatternMatches(WwwHost, firstPartyHosts[2])
  /\ Len(filtered) = 2
  /\ filtered[1].url.host = WwwHost
  /\ resourceSummary["third-party"].count = 1

FirstPartySurvivors == SelectSeq(filtered, LAMBDA r : IsFirstParty(r, firstPartyHosts))

\* C6: in the returned summary third-party plus the first-party surviving
\* records make up total, field by field, so third-party never exceeds
\* total.
C6_ThirdPartyPlusFirstParty ==
  Returned =>
    LET tp == resourceSummary["third-party"]
        fp == Totals(FirstPartySurvivors)
        total == resourceSummary["total"]
    IN /\ tp.count + fp.count = total.count
       /\ tp.resourceSize + fp.resourceSize = total.resourceSize
       /\ tp.transferSize + fp.transferSize = total.transferSize
       /\ tp.count <= total.count
       /\ tp.resourceSize <= total.resourceSize
       /\ tp.transferSize <= total.transferSize

\* C6 witness: one first-party and one third-party record were counted.
C6_Witness ==
  /\ Returned
  /\ resourceSummary["total"].count = 2
  /\ resourceSummary["third-party"].count = 1
  /\ resourceSummary["third-party"].resourceSize < resourceSummary["total"].resourceSize

Fields == {"count", "resourceSize", "transferSize"}

\* C7: summarize never raises, also for records with absent or unparseable
\* fields, and every field of every returned bucket is a non-negative
\* integer.
C7_TotalOnMalformed ==
  /\ pc # "threw"
  /\ Returned => \A t \in ResourceTypes : \A f \in Fields : resourceSummary[t][f] \in Nat

\* The records of a list at the positions in S, in their order.
RECURSIVE Pick(_, _, _)
Pick(records, S, i) ==
  IF i > Len(records) THEN <<>>
  ELSE (IF i \in S THEN <<records[i]>> ELSE <<>>) \o Pick(records, S, i + 1)

\* Two summaries added field by field, bucket by bucket.
Merge(a, b) ==
  [t \in ResourceTypes |->
     [count |-> a[t].count + b[t].count,
      resourceSize |-> a[t].resourceSize + b[t].resourceSize,
      transferSize |-> a[t].transferSize + b[t].transferSize]]

SummaryOf(records) ==
  summarize(records, URLArtifact, budgets, LinkElements, classifiedEntities)

Orderings(n) == {p \in [1..n -> 1..n] : \A i, j \in 1..n : p[i] = p[j] => i = j}

\* C8: the summaries of the two parts of any split of the record list, added
\* field by field, are the summary of the whole list, and the summary does
\* not depend on the order of the records.
C8_PartitionMerge ==
  Returned =>
    LET n == Len(networkRecords)
    IN /\ \A S \in SUBSET (1..n) :
            LET a == SummaryOf(Pick(networkRecords, S, 1))
                b == SummaryOf(Pick(networkRecords, (1..n) \ S, 1))
            IN ~a.threw /\ ~b.threw /\ Merge(a.summary, b.summary) = resourceSummary
       /\ \A p \in Orderings(n) :
            LET r == SummaryOf([i \in 1..n |-> networkRecords[p[i]]])
            IN ~r.threw /\ r.summary = resourceSummary

\* C8 witness: two counted third-party records of different sizes, so that
\* both parts of a split contribute to the same buckets.
C8_Witness ==
  /\ Returned
  /\ Len(filtered) = 2
  /\ filtered[1].transferSize # filtered[2].transferSize
  /\ resourceSummary["total"].count = 2
  /\ resourceSummary["third-party"].count = 2

\* The surviving records a bucket accumulates.
Touching(t) ==
  SelectSeq(filtered, LAMBDA r :
    \/ t = "total"
    \/ t = "third-party" /\ ~FirstPartyByPatterns(r)
    \/ t = TableType(r))

\* C9: the summary always has exactly the nine buckets with their three
\* fields; a bucket no surviving record touched is {0,0,0}, so a call in
\* which no record survives returns nine zero entries.
C9_NineBuckets ==
  /\ DOMAIN resourceSummary = ResourceTypes
  /\ \A t \in ResourceTypes : DOMAIN resourceSummary[t] = Fields
  /\ Returned =>
       /\ \A t \in ResourceTypes :
            Touching(t) = <<>> =>
              resourceSummary[t] = [count |-> 0, resourceSize |-> 0, transferSize |-> 0]
       /\ filtered = <<>> =>
            \A t \in ResourceTypes : \A f \in Fields : resourceSummary[t][f] = 0

\* C9 witness: every record of a non-empty list was excluded and the call
\* returned.
C9_Witness ==
  /\ Returned
  /\ Len(networkRecords) = 2
  /\ filtered = <<>>
  /\ resourceSummary["total"].count = 0

PerTypeBuckets == ResourceTypes \ {"total", "third-party"}

RECURSIVE SumOverBuckets(_, _)
SumOverBuckets(B, f) ==
  IF B = {} THEN 0
  ELSE LET t == CHOOSE x \in B : TRUE
       IN resourceSummary[t][f] + SumOverBuckets(B \ {t}, f)

\* C10: each surviving record is accumulated into exactly the per-type
\* bucket the mapping table gives (absent and unlisted resource types into
\* "other"), so the seven per-type buckets sum to "total" in every field.
C10_PerTypeBuckets ==
  Returned =>
    /\ \A t \in PerTypeBuckets :
         resourceSummary[t] = Totals(SelectSeq(filtered, LAMBDA r : TableType(r) = t))
    /\ \A f \in Fields : SumOverBuckets(PerTypeBuckets, f) = resourceSummary["total"][f]

\* C10 witness: a Media request and a request of an unlisted type were
\* counted in "media" and "other".
C10_Witness ==
  /\ Returned
  /\ resourceSummary["media"].count = 1
  /\ resourceSummary["other"].count = 1
  /\ \E i \in 1..Len(filtered) : filtered[i].resourceType = "XHR"
  /\ resourceSummary["total"].count = 2

====
